---- MODULE Spec2Model ----
(***************************************************************************)
(* State-machine model of src/b_s.py: the main asyncio context (main,      *)
(* establish_connection_timestamp, message_callback, process_command and   *)
(* the capability wrappers) and the lock-file thread (update_lock_file).   *)
(*                                                                         *)
(* Text is a sequence of tokens, SP being one whitespace character, so     *)
(* that str.strip, str.startswith and == are computed, not assumed.        *)
(* time.time() is a reading [s, ms] (whole seconds, milliseconds within    *)
(* the second).  The Matrix client, psutil, the filesystem and the         *)
(* shutdown command are the environment: every call draws its outcome.     *)
(***************************************************************************)
EXTENDS Integers, Sequences, FiniteSets, TLC

VARIABLES
    pc,                    \* position of main() / __main__
    running,               \* global running (line 38)
    connection_timestamp,  \* global connection_timestamp (line 35)
    registered,            \* message_callback added to the client (line 374)
    closed,                \* number of client.close() calls (line 395)
    delivered,             \* events handed to the callback by the sync in progress
    marker,                \* the marker message sent at line 170, as the server stored it
    est,                   \* how the call of establish_connection_timestamp went:
                           \*   the path taken, the assignments made, the clock
                           \*   reading used, the event adopted, and whether the
                           \*   marker sent was in the re-synced timeline
    last,                  \* what the latest callback invocation of the sync in progress did
    lockPc,                \* position of update_lock_file()
    lock_file,             \* who wrote the lock file last
    client,                \* global client (lines 34 and 353)
    logins,                \* number of client.login() calls (line 358)
    cause,                 \* why main left its try block (lines 362, 382, 390-392)
    stop_reply,            \* what room_send did with the reply of the command
                           \*   that cleared the flag (lines 245-252), once it
                           \*   has returned or raised
    late_writes            \* writes of update_lock_file since the flag is False

vars == <<pc, running, connection_timestamp, registered, closed, delivered,
          marker, est, last, lockPc, lock_file,
          client, logins, cause, stop_reply, late_writes>>

----------------------------------------------------------------------------
(* Bounds *)

MaxSec == 1        \* clock readings and server timestamps: seconds 0..MaxSec
MaxMs == 0         \* ... and milliseconds 0..MaxMs within the second
MaxBatch == 2      \* events one sync hands to the callback
MaxProcs == 1      \* entries of the process table seen by psutil.process_iter
MaxCount == 2      \* the counters logins and late_writes stop counting here

----------------------------------------------------------------------------
(* Configuration and constants of the program *)

BOT_NAME == "PC1"
ROOM_ID == "!room"
OTHER_ROOM == "!other"
SYNC_PREFIX == "__TIMESTAMP_SYNC__"
MsPerSec == 1000
None == -1                      \* connection_timestamp = None
NoResponse == <<>>              \* process_command returned None
SP == " "

(* A counter that stops at MaxCount *)
count(n) == IF n < MaxCount THEN n + 1 ELSE n

Identities == {BOT_NAME, "PC2"}

(* time.time() readings, int(time.time()) and int(time.time() * 1000) *)
ClockReadings == [s : 0..MaxSec, ms : 0..MaxMs]
int_seconds(t) == t.s
int_millis(t) == t.s * MsPerSec + t.ms
Timestamps == {int_millis(t) : t \in ClockReadings}

----------------------------------------------------------------------------
(* Text *)

RECURSIVE lstrip(_)
lstrip(s) == IF s # <<>> /\ Head(s) = SP THEN lstrip(Tail(s)) ELSE s

RECURSIVE rstrip(_)
rstrip(s) ==
    IF s # <<>> /\ s[Len(s)] = SP THEN rstrip(SubSeq(s, 1, Len(s) - 1)) ELSE s

strip(s) == rstrip(lstrip(s))

startswith(s, p) == Len(s) >= Len(p) /\ SubSeq(s, 1, Len(p)) = p

RECURSIVE join(_, _)
join(sep, xs) ==
    IF xs = <<>> THEN <<>>
    ELSE IF Len(xs) = 1 THEN <<xs[1]>>
    ELSE <<xs[1], sep>> \o join(sep, Tail(xs))

(* The command strings of process_command, f-strings over BOT_NAME *)
Defcon(n, id) == <<"DEFCON", SP, n, SP, id>>
Defcon2 == <<"DEFCON", SP, "2">>
AreYouOnline(id) == <<"Are", SP, "you", SP, "online", SP, id>>
PcShutdown(id) == <<"PC", SP, "Shutdown", SP, id>>
PcRestart(id) == <<"PC", SP, "Restart", SP, id>>
temp_message(t) == <<SYNC_PREFIX, ToString(int_seconds(t))>>

Success(n) == <<"Success from ", BOT_NAME, " on DEFCON ", n>>
Failure(n, why) == <<"Error from ", BOT_NAME, " on DEFCON ", n, ": ">> \o why

ScopedCommands(id) ==
    {Defcon("5", id), Defcon("4", id), Defcon("3", id),
     AreYouOnline(id), PcShutdown(id), PcRestart(id)}

(* Message bodies the transport delivers *)
Bodies ==
    UNION {ScopedCommands(id) : id \in Identities}
    \cup {Defcon2, Defcon2 \o <<SP, BOT_NAME>>}
    \cup {temp_message(t) : t \in ClockReadings}
    \cup {<<SP>> \o temp_message([s |-> 0, ms |-> 0]),
          Defcon("5", BOT_NAME) \o <<SP>>,
          <<"hello">>}

(* Bodies that also arrive from a room other than ROOM_ID *)
OtherRoomBodies ==
    {AreYouOnline(BOT_NAME), Defcon("5", BOT_NAME), <<"hello">>,
     temp_message([s |-> 0, ms |-> 0])}

(* RoomMessageText events.  event_id "$sent" is the event created by this
   agent's room_send of line 170, "$other" any other event. *)
Event(body, ts, room, id) ==
    [body |-> body, server_timestamp |-> ts, room |-> room, event_id |-> id]
Events ==
    {Event(b, ts, ROOM_ID, "$other") : b \in Bodies, ts \in Timestamps}
    \cup {Event(b, ts, OTHER_ROOM, "$other") : b \in OtherRoomBodies, ts \in Timestamps}
NoMarker == Event(<<>>, None, ROOM_ID, "none")

----------------------------------------------------------------------------
(* Capabilities *)

(* One entry of psutil.process_iter: whether the command line matches, what
   proc.terminate() does, and what the second pass finds and proc.kill() does
   ("absent": the process is no longer listed).  The process the agent runs
   in is listed too, and the test of lines 71-72 does not leave it out: run
   as `python ... b_s.py` it matches, and proc.terminate() then ends the
   caller (term "self"). *)
ProcKinds ==
    {[match |-> FALSE, term |-> "ok", kill |-> "absent"],
     [match |-> TRUE, term |-> "self", kill |-> "absent"],
     [match |-> TRUE, term |-> "ok", kill |-> "absent"],
     [match |-> TRUE, term |-> "ok", kill |-> "ok"],
     [match |-> TRUE, term |-> "ok", kill |-> "fault"],
     [match |-> TRUE, term |-> "gone", kill |-> "absent"],
     [match |-> TRUE, term |-> "denied", kill |-> "denied"],
     [match |-> TRUE, term |-> "fault", kill |-> "absent"]}

ProcTables == UNION {[1..n -> ProcKinds] : n \in 0..MaxProcs}

(* Lines 67-77: returns the terminated list and whether an exception other
   than NoSuchProcess / AccessDenied escaped the loop; ended: line 74 was
   called on the process itself, which ends there. *)
RECURSIVE terminate_pass(_, _, _)
terminate_pass(procs, i, terminated) ==
    IF i > Len(procs)
        THEN [terminated |-> terminated, raised |-> FALSE, ended |-> FALSE]
    ELSE IF ~procs[i].match THEN terminate_pass(procs, i + 1, terminated)
    ELSE IF procs[i].term = "self"
        THEN [terminated |-> terminated, raised |-> FALSE, ended |-> TRUE]
    ELSE IF procs[i].term = "ok"
        THEN terminate_pass(procs, i + 1, Append(terminated, <<i, "">>))
    ELSE IF procs[i].term \in {"gone", "denied"}
        THEN terminate_pass(procs, i + 1, terminated)
    ELSE [terminated |-> terminated, raised |-> TRUE, ended |-> FALSE]

(* Lines 83-92 *)
RECURSIVE kill_pass(_, _, _)
kill_pass(procs, i, terminated) ==
    IF i > Len(procs) THEN [terminated |-> terminated, raised |-> FALSE]
    ELSE IF ~procs[i].match \/ procs[i].kill = "absent"
        THEN kill_pass(procs, i + 1, terminated)
    ELSE IF procs[i].kill = "ok"
        THEN kill_pass(procs, i + 1, Append(terminated, <<i, " - force killed">>))
    ELSE IF procs[i].kill \in {"gone", "denied"}
        THEN kill_pass(procs, i + 1, terminated)
    ELSE [terminated |-> terminated, raised |-> TRUE]

(* Lines 61-97.  ended: the process ended inside the first pass and nothing
   is returned. *)
terminate_processes(procs) ==
    LET first == terminate_pass(procs, 1, <<>>)
        second == kill_pass(procs, 1, first.terminated)
    IN  IF first.ended
            THEN [terminated |-> first.terminated, errors |-> <<>>, ended |-> TRUE]
        ELSE IF first.raised
            THEN [terminated |-> first.terminated, errors |-> <<"exception">>,
                  ended |-> FALSE]
        ELSE IF second.raised
            THEN [terminated |-> second.terminated, errors |-> <<"exception">>,
                  ended |-> FALSE]
        ELSE [terminated |-> second.terminated, errors |-> <<>>, ended |-> FALSE]

(* Lines 76-77 and 91-92: a matching process for which proc.terminate() and
   proc.kill() both raised AccessDenied is skipped by `continue` in both
   passes, so it is still running when terminate_processes returns *)
left_running(procs) ==
    \E i \in 1..Len(procs) :
        procs[i].match /\ procs[i].term = "denied" /\ procs[i].kill = "denied"

(* The startup script: whether it exists, whether attrib +H succeeds,
   whether os.remove succeeds *)
FileStates ==
    {[exists |-> FALSE, attrib |-> TRUE, remove |-> TRUE],
     [exists |-> TRUE, attrib |-> TRUE, remove |-> TRUE],
     [exists |-> TRUE, attrib |-> FALSE, remove |-> TRUE],
     [exists |-> TRUE, attrib |-> TRUE, remove |-> FALSE]}

(* Lines 106-116 *)
hide_vbs_file(fs) == fs.exists /\ fs.attrib

(* Lines 118-132: the attrib -H call is unchecked *)
delete_vbs_file(fs) == fs.exists /\ fs.remove

(* Lines 134-141 and 143-150: subprocess.run(..., check=True) *)
shutdown_pc(ok) == ok
restart_pc(ok) == ok

QuietEnv == [procs |-> <<>>,
             fs |-> [exists |-> FALSE, attrib |-> TRUE, remove |-> TRUE],
             power |-> FALSE]

----------------------------------------------------------------------------
(* process_command, lines 257-329.  Returns the reply (NoResponse for None),
   whether `running = False` was executed, the capability calls made, in
   order, the error list of terminate_processes and what the artifact step
   returned ("not_called" when it was not reached). *)

Outcome(response, stop, effects, errors, artifact) ==
    [response |-> response, stop |-> stop, effects |-> effects,
     errors |-> errors, artifact |-> artifact, ended |-> FALSE]

(* process_command did not return: the process ended inside
   terminate_processes (line 74), before any `running = False` and before
   any reply existed *)
EndedInTerminate ==
    [response |-> NoResponse, stop |-> FALSE, effects |-> <<"terminate_processes">>,
     errors |-> <<>>, artifact |-> "not_called", ended |-> TRUE]

(* command_of with the identity at the end of the text not compared *)
command_of_any_identity(message) ==
    LET verb == IF message = <<>> THEN <<>> ELSE SubSeq(message, 1, Len(message) - 1)
        is(command) == verb = SubSeq(command, 1, Len(command) - 1)
    IN  IF is(Defcon("5", BOT_NAME)) THEN "DEFCON 5"
        ELSE IF is(Defcon("4", BOT_NAME)) THEN "DEFCON 4"
        ELSE IF is(Defcon("3", BOT_NAME)) THEN "DEFCON 3"
        ELSE IF message = Defcon2 THEN "DEFCON 2"
        ELSE IF is(AreYouOnline(BOT_NAME)) THEN "Are you online"
        ELSE IF is(PcShutdown(BOT_NAME)) THEN "PC Shutdown"
        ELSE IF is(PcRestart(BOT_NAME)) THEN "PC Restart"
        ELSE "unrecognized"

(* The branch conditions of lines 264, 273, 285, 297, 311, 315 and 322: exact
   comparison with the command text built from BOT_NAME *)
command_of(message) ==
    IF message = Defcon("5", BOT_NAME) THEN "DEFCON 5"
    ELSE IF message = Defcon("4", BOT_NAME) THEN "DEFCON 4"
    ELSE IF message = Defcon("3", BOT_NAME) THEN "DEFCON 3"
    ELSE IF message = Defcon2 THEN "DEFCON 2"
    ELSE IF message = AreYouOnline(BOT_NAME) THEN "Are you online"
    ELSE IF message = PcShutdown(BOT_NAME) THEN "PC Shutdown"
    ELSE IF message = PcRestart(BOT_NAME) THEN "PC Restart"
    ELSE "unrecognized"

(* defcon_5 with `running = False` moved out of the `if not errors` branch *)
defcon_5_always_stops(env) ==
    LET t == terminate_processes(env.procs)
    IN  IF t.ended THEN EndedInTerminate
        ELSE IF t.errors = <<>>
        THEN Outcome(Success("5"), TRUE, <<"terminate_processes">>, t.errors,
                     "not_called")
        ELSE Outcome(Failure("5", join("; ", t.errors)), TRUE,
                     <<"terminate_processes">>, t.errors, "not_called")

(* Lines 265-270 *)
defcon_5(env) ==
    LET t == terminate_processes(env.procs)
    IN  IF t.ended THEN EndedInTerminate
        ELSE IF t.errors = <<>>
        THEN Outcome(Success("5"), TRUE, <<"terminate_processes">>, t.errors,
                     "not_called")
        ELSE Outcome(Failure("5", join("; ", t.errors)), FALSE,
                     <<"terminate_processes">>, t.errors, "not_called")

(* two_step with the result of the artifact step ignored *)
two_step_ignores_artifact(n, artifact_name, artifact_ok, why, env) ==
    LET t == terminate_processes(env.procs)
    IN  IF t.ended THEN EndedInTerminate
        ELSE IF t.errors = <<>>
        THEN Outcome(Success(n), TRUE,
                     <<"terminate_processes", artifact_name>>, t.errors,
                     IF artifact_ok THEN "True" ELSE "False")
        ELSE Outcome(Failure(n, join("; ", t.errors)), FALSE,
                     <<"terminate_processes">>, t.errors, "not_called")

(* Lines 274-282, 286-294 and 298-308: the artifact step runs only when
   terminate_processes reported no error *)
two_step(n, artifact_name, artifact_ok, why, env) ==
    LET t == terminate_processes(env.procs)
    IN  IF t.ended THEN EndedInTerminate
        ELSE IF t.errors = <<>>
        THEN IF artifact_ok
             THEN Outcome(Success(n), TRUE,
                          <<"terminate_processes", artifact_name>>, t.errors, "True")
             ELSE Outcome(Failure(n, <<why>>), FALSE,
                          <<"terminate_processes", artifact_name>>, t.errors, "False")
        ELSE Outcome(Failure(n, join("; ", t.errors)), FALSE,
                     <<"terminate_processes">>, t.errors, "not_called")

process_command(raw, env) ==
    LET message == strip(raw)
        command == command_of(message)
    IN  IF command = "DEFCON 5" THEN defcon_5(env)
        ELSE IF command = "DEFCON 4"
        THEN two_step("4", "hide_vbs_file", hide_vbs_file(env.fs),
                      "Failed to hide VBS file", env)
        ELSE IF command = "DEFCON 3"
        THEN two_step("3", "delete_vbs_file", delete_vbs_file(env.fs),
                      "Failed to delete VBS file", env)
        ELSE IF command = "DEFCON 2"
        THEN two_step("2", "delete_vbs_file", delete_vbs_file(env.fs),
                      "Failed to delete VBS file", env)
        ELSE IF command = "Are you online"
        THEN Outcome(<<"Yes ", BOT_NAME, " is online">>, FALSE, <<>>, <<>>,
                     "not_called")
        ELSE IF command = "PC Shutdown"
        THEN IF shutdown_pc(env.power)
             THEN Outcome(<<"shutdown confirmed for ", BOT_NAME>>, FALSE,
                          <<"shutdown_pc">>, <<>>, "not_called")
             ELSE Outcome(<<"Error from ", BOT_NAME, ": Failed to initiate shutdown">>,
                          FALSE, <<"shutdown_pc">>, <<>>, "not_called")
        ELSE IF command = "PC Restart"
        THEN IF restart_pc(env.power)
             THEN Outcome(<<"restart confirmed for ", BOT_NAME>>, FALSE,
                          <<"restart_pc">>, <<>>, "not_called")
             ELSE Outcome(<<"Error from ", BOT_NAME, ": Failed to initiate restart">>,
                          FALSE, <<"restart_pc">>, <<>>, "not_called")
        ELSE Outcome(NoResponse, FALSE, <<>>, <<>>, "not_called")

(* The capability outcomes drawn for one invocation: the process table for
   this agent's DEFCON commands, the state of the startup script for those
   with an artifact step, the result of the shutdown command for the power
   commands.  Any other text is processed with an empty process table and
   no startup script (QuietEnv). *)
EnvsFor(raw) ==
    LET message == strip(raw)
        stops == {Defcon("5", BOT_NAME), Defcon("4", BOT_NAME),
                  Defcon("3", BOT_NAME), Defcon2}
    IN  {env \in
            [procs : IF message \in stops THEN ProcTables ELSE {QuietEnv.procs},
             fs : IF message \in stops \ {Defcon("5", BOT_NAME)}
                  THEN FileStates ELSE {QuietEnv.fs},
             power : IF message \in {PcShutdown(BOT_NAME), PcRestart(BOT_NAME)}
                     THEN BOOLEAN ELSE {QuietEnv.power}] :
            \* the startup script is looked at only after a clean termination
            LET t == terminate_processes(env.procs)
            IN  (t.errors # <<>> \/ t.ended) => env.fs = QuietEnv.fs}

----------------------------------------------------------------------------
(* message_callback, lines 213-255 *)

SendOutcomes == {"ok", "error", "raise"}

(* room_send has been called at line 245 and has not returned yet *)
AwaitingSend == "pending"

is_sync_marker(body) == startswith(body, <<SYNC_PREFIX>>)

(* classify with the comparison of line 234 written < : a message stamped
   exactly at the epoch is processed *)
classify_ties_accepted(event, epoch) ==
    IF epoch = None THEN "no_timestamp"
    ELSE IF is_sync_marker(event.body) THEN "sync_marker"
    ELSE IF event.server_timestamp < epoch THEN "old"
    ELSE "process"

(* classify without the test of lines 229-231 *)
classify_without_marker_test(event, epoch) ==
    IF epoch = None THEN "no_timestamp"
    ELSE IF event.server_timestamp <= epoch THEN "old"
    ELSE "process"

(* Lines 218-236: what the callback does with an event before dispatch *)
classify(event, epoch) ==
    IF epoch = None THEN "no_timestamp"
    ELSE IF is_sync_marker(event.body) THEN "sync_marker"
    ELSE IF event.server_timestamp <= epoch THEN "old"
    ELSE "process"

NoCall ==
    [event |-> NoMarker, verdict |-> "none", calls |-> 0, message |-> <<>>,
     response |-> NoResponse, stop |-> FALSE, effects |-> <<>>, errors |-> <<>>,
     artifact |-> "not_called", sent |-> <<>>, run_before |-> TRUE,
     denied |-> FALSE, epoch |-> None, ended |-> FALSE]

(* The record of one invocation that returned before process_command *)
Dropped(event, verdict) ==
    [NoCall EXCEPT !.event = event, !.verdict = verdict, !.run_before = running,
                   !.epoch = connection_timestamp]

(* Processed with the reply sent to the configured ROOM_ID instead of
   room.room_id *)
Processed_to_configured_room(event, env, send) ==
    LET message == strip(event.body)
        o == process_command(message, env)
    IN  [event |-> event, verdict |-> "process", calls |-> 1, message |-> message,
         response |-> o.response, stop |-> o.stop, effects |-> o.effects,
         errors |-> o.errors, artifact |-> o.artifact,
         sent |-> IF o.response # NoResponse
                  THEN <<[room_id |-> ROOM_ID, body |-> o.response,
                          outcome |-> send]>>
                  ELSE <<>>,
         run_before |-> running,
         denied |-> left_running(env.procs),
         epoch |-> connection_timestamp,
         ended |-> o.ended]

(* The record of one invocation that reached process_command (lines 238-252);
   send: what became of the room_send call of line 245 (AwaitingSend while
   the callback is suspended in it);
   denied: terminate_processes skipped a matching process on AccessDenied;
   epoch: connection_timestamp as the invocation read it;
   ended: the process ended inside process_command *)
Processed(event, env, send) ==
    LET message == strip(event.body)
        o == process_command(message, env)
    IN  [event |-> event, verdict |-> "process", calls |-> 1, message |-> message,
         response |-> o.response, stop |-> o.stop, effects |-> o.effects,
         errors |-> o.errors, artifact |-> o.artifact,
         sent |-> IF o.response # NoResponse
                  THEN <<[room_id |-> event.room, body |-> o.response,
                          outcome |-> send]>>
                  ELSE <<>>,
         run_before |-> running,
         denied |-> left_running(env.procs),
         epoch |-> connection_timestamp,
         ended |-> o.ended]

(* Lines 213-245, up to the first await: the callback returns at once for a
   dropped message and for a None response; otherwise process_command has
   run to its end (it awaits nothing: terminate_processes blocks in
   time.sleep), `running = False` included, and the callback is suspended in
   `await client.room_send`.  When terminate_processes reaches the process
   itself the process ends at line 74 ("killed"): nothing of the callback, of
   main or of the lock thread runs after it. *)
message_callback(event) ==
    LET verdict == classify(event, connection_timestamp)
    IN  IF verdict # "process"
        THEN /\ last' = Dropped(event, verdict)
             /\ UNCHANGED <<running, pc>>
        ELSE \E env \in EnvsFor(event.body) :
                LET r == Processed(event, env, AwaitingSend)
                IN  /\ last' = r
                    /\ running' = IF r.stop THEN FALSE ELSE running
                    /\ pc' = IF r.ended THEN "killed" ELSE pc

(* The callback of the sync in progress is suspended in room_send *)
Suspended == last.sent # <<>> /\ last.sent[1].outcome = AwaitingSend

----------------------------------------------------------------------------
(* establish_connection_timestamp, lines 152-211 *)

SyncOutcomes == {"SyncResponse", "error", "raise"}

NotEstablished ==
    [path |-> "none", writes |-> 0, clock |-> [s |-> 0, ms |-> 0],
     adopted |-> NoMarker, echoed |-> FALSE]

(* Lines 187-194: newest event first, the first whose body starts with the
   prefix is taken; NoMarker when there is none *)
RECURSIVE scan_timeline(_, _)
scan_timeline(events, i) ==
    IF i < 1 THEN NoMarker
    ELSE IF startswith(events[i].body, <<SYNC_PREFIX>>) THEN events[i]
    ELSE scan_timeline(events, i - 1)

(* fallback without the conversion to milliseconds *)
fallback_in_seconds(path, now) ==
    /\ connection_timestamp' = int_seconds(now)
    /\ est' = [est EXCEPT !.path = path, !.writes = @ + 1, !.clock = now]

(* Lines 201 and 209: connection_timestamp = int(time.time() * 1000) *)
fallback(path, now) ==
    /\ connection_timestamp' = int_millis(now)
    /\ est' = [est EXCEPT !.path = path, !.writes = @ + 1, !.clock = now]

(* Line 160 returned: lines 162 and 205-211 *)
est_sync_return ==
    /\ pc = "est_sync"
    /\ \E outcome \in SyncOutcomes, now \in ClockReadings :
        /\ outcome # "SyncResponse" => delivered = 0
        /\ IF outcome = "SyncResponse"
           THEN /\ pc' = "est_send"
                /\ UNCHANGED <<connection_timestamp, est>>
           ELSE /\ pc' = "ready"
                /\ fallback("final", now)
    /\ delivered' = 0
    /\ last' = NoCall
    /\ UNCHANGED <<running, registered, closed, marker, lockPc, lock_file,
                   client, logins, cause, stop_reply, late_writes>>

(* Lines 167-180: the marker message is sent; the server stamps it *)
est_send ==
    /\ pc = "est_send"
    /\ \E outcome \in SendOutcomes, now \in ClockReadings, ts \in Timestamps :
        IF outcome = "raise"
        THEN /\ pc' = "ready"
             /\ fallback("fallback", now)
             /\ UNCHANGED marker
        ELSE /\ pc' = "est_resync"
             /\ marker' = IF outcome = "ok"
                          THEN Event(temp_message(now), ts, ROOM_ID, "$sent")
                          ELSE marker
             /\ UNCHANGED <<connection_timestamp, est>>
    /\ UNCHANGED <<running, registered, closed, delivered, last, lockPc, lock_file,
                   client, logins, cause, stop_reply, late_writes>>

(* The ROOM_ID timelines the re-sync of line 181 can return: events of the
   room in server order (timestamps non-decreasing), the marker just sent
   at most once.  The scan reads only whether a body starts with the prefix,
   so the timeline is drawn from markers of other senders, a text with the
   prefix after a blank, a text without it, and a command for this agent. *)
TimelineBodies ==
    {temp_message(t) : t \in ClockReadings}
    \cup {<<SP>> \o temp_message([s |-> 0, ms |-> 0]), <<"hello">>,
          AreYouOnline(BOT_NAME)}

RoomEvents ==
    {e \in Events : e.room = ROOM_ID /\ e.body \in TimelineBodies}
    \cup (IF marker # NoMarker THEN {marker} ELSE {})

Follows(tl, e) ==
    /\ IF tl = <<>> THEN TRUE
       ELSE tl[Len(tl)].server_timestamp <= e.server_timestamp
    /\ e = marker => \A i \in 1..Len(tl) : tl[i] # marker

RECURSIVE TimelinesOfLength(_)
TimelinesOfLength(n) ==
    IF n = 0 THEN {<<>>}
    ELSE {Append(q[1], q[2]) :
            q \in {r \in TimelinesOfLength(n - 1) \X RoomEvents : Follows(r[1], r[2])}}

Timelines == UNION {TimelinesOfLength(n) : n \in 0..MaxBatch}

(* Line 181 returned: the callback has run for every event of the response
   (connection_timestamp is still None, so each was dropped at lines 218-220;
   last is the invocation for the newest), then lines 183-203 *)
est_resync_return ==
    /\ pc = "est_resync"
    /\ \E outcome \in SyncOutcomes :
        \E tl \in IF outcome = "SyncResponse" THEN Timelines ELSE {<<>>} :
            LET found == scan_timeline(tl, Len(tl))
            IN  /\ \A i \in 1..Len(tl) :
                        classify(tl[i], connection_timestamp) = "no_timestamp"
                /\ IF found # NoMarker
                   THEN /\ connection_timestamp' = found.server_timestamp
                        /\ est' = [est EXCEPT
                                    !.path = "marker", !.writes = @ + 1,
                                    !.adopted = found,
                                    !.echoed = \E i \in 1..Len(tl) : tl[i] = marker]
                   ELSE \E now \in ClockReadings : fallback("fallback", now)
                /\ last' = IF tl = <<>> THEN NoCall
                           ELSE Dropped(tl[Len(tl)],
                                        classify(tl[Len(tl)], connection_timestamp))
    /\ pc' = "ready"
    /\ delivered' = 0
    /\ UNCHANGED <<running, registered, closed, marker, lockPc, lock_file,
                   client, logins, cause, stop_reply, late_writes>>

----------------------------------------------------------------------------
(* client.sync handing one event to the registered callback (the callbacks
   run inside sync, one event after the other) *)

SyncStates == {"est_sync", "poll"}

(* client.sync calls the callback for the next event of the response, the
   callback for the event before it having returned *)
sync_deliver ==
    /\ pc \in SyncStates
    /\ registered
    /\ ~Suspended
    /\ delivered < MaxBatch
    /\ \E event \in Events : message_callback(event)
    /\ delivered' = delivered + 1
    /\ UNCHANGED <<connection_timestamp, registered, closed, marker, est,
                   lockPc, lock_file,
                   client, logins, cause, stop_reply, late_writes>>

(* room_send_return for a message_callback without the except clause of
   lines 254-255: an exception of room_send leaves the callback and the
   sync, and the events after it are not handled *)
room_send_return_propagating ==
    /\ pc \in SyncStates
    /\ Suspended
    /\ \E send \in SendOutcomes :
        /\ last' = [last EXCEPT !.sent[1].outcome = send]
        /\ stop_reply' = IF last.stop /\ last.run_before THEN send ELSE stop_reply
        /\ pc' = IF send = "raise" THEN "sleep_5" ELSE pc
    /\ UNCHANGED <<running, connection_timestamp, registered, closed, delivered,
                   marker, est, lockPc, lock_file,
                   client, logins, cause, late_writes>>

(* Lines 245-255: room_send returned (a response or an error response, which
   the callback does not look at) or raised (caught at line 254); the
   callback returns to the sync *)
room_send_return ==
    /\ pc \in SyncStates
    /\ Suspended
    /\ \E send \in SendOutcomes :
        /\ last' = [last EXCEPT !.sent[1].outcome = send]
        /\ stop_reply' = IF last.stop /\ last.run_before THEN send ELSE stop_reply
    /\ UNCHANGED <<pc, running, connection_timestamp, registered, closed, delivered,
                   marker, est, lockPc, lock_file,
                   client, logins, cause, late_writes>>

----------------------------------------------------------------------------
(* main, lines 331-396, and the __main__ block, lines 398-406 *)

(* Lines 338-341 *)
main_start ==
    /\ pc = "start"
    /\ pc' = "initial_lock"
    /\ lockPc' = "makedirs"
    /\ UNCHANGED <<running, connection_timestamp, registered, closed, delivered,
                   marker, est, last, lock_file,
                   client, logins, cause, stop_reply, late_writes>>

(* Lines 343-350 *)
main_initial_lock ==
    /\ pc = "initial_lock"
    /\ \E ok \in BOOLEAN : lock_file' = IF ok THEN "main" ELSE lock_file
    /\ pc' = "create_client"
    /\ UNCHANGED <<running, connection_timestamp, registered, closed, delivered,
                   marker, est, last, lockPc,
                   client, logins, cause, stop_reply, late_writes>>

(* Lines 352-357 *)
main_create_client ==
    /\ pc = "create_client"
    /\ client' = "AsyncClient"
    /\ pc' = "login"
    /\ UNCHANGED <<running, connection_timestamp, registered, closed, delivered,
                   marker, est, last, lockPc, lock_file,
                   logins, cause, stop_reply, late_writes>>

(* Line 358: client.login is called and main is suspended in it *)
main_login_call ==
    /\ pc = "login"
    /\ logins' = count(logins)
    /\ pc' = "login_await"
    /\ UNCHANGED <<running, connection_timestamp, registered, closed, delivered,
                   marker, est, last, lockPc, lock_file,
                   client, cause, stop_reply, late_writes>>

(* Lines 358-364 and 390-391: login returned or raised; an error response
   returns from inside the try, an exception is caught at line 390, and both
   run the finally block *)
main_login ==
    /\ pc = "login_await"
    /\ \E outcome \in {"LoginResponse", "error", "raise"} :
        /\ pc' = IF outcome = "LoginResponse" THEN "join" ELSE "finally"
        /\ cause' = IF outcome = "LoginResponse" THEN cause ELSE "login"
    /\ UNCHANGED <<running, connection_timestamp, registered, closed, delivered,
                   marker, est, last, lockPc, lock_file,
                   client, logins, stop_reply, late_writes>>

(* main_join without the try/except of lines 367-371: a failed join is
   caught at line 390 and ends main *)
main_join_fatal ==
    /\ pc = "join"
    /\ \E outcome \in {"ok", "raise"} :
        pc' = IF outcome = "ok" THEN "register" ELSE "finally"
    /\ UNCHANGED <<running, connection_timestamp, registered, closed, delivered,
                   marker, est, last, lockPc, lock_file,
                   client, logins, cause, stop_reply, late_writes>>

(* Lines 366-371: a failed join is only logged *)
main_join ==
    /\ pc = "join"
    /\ \E outcome \in {"ok", "raise"} : pc' = "register"
    /\ UNCHANGED <<running, connection_timestamp, registered, closed, delivered,
                   marker, est, last, lockPc, lock_file,
                   client, logins, cause, stop_reply, late_writes>>

(* Lines 373-377 *)
main_register ==
    /\ pc = "register"
    /\ registered' = TRUE
    /\ pc' = "est_sync"
    /\ UNCHANGED <<running, connection_timestamp, closed, delivered,
                   marker, est, last, lockPc, lock_file,
                   client, logins, cause, stop_reply, late_writes>>

(* Lines 377-379: establish_connection_timestamp returned *)
main_ready ==
    /\ pc = "ready"
    /\ pc' = "loop"
    /\ est' = NotEstablished
    /\ marker' = NoMarker
    /\ last' = NoCall
    /\ UNCHANGED <<running, connection_timestamp, registered, closed, delivered,
                   lockPc, lock_file,
                   client, logins, cause, stop_reply, late_writes>>

(* Line 382: `while running`; leaving the loop leads to the finally block *)
main_while ==
    /\ pc = "loop"
    /\ pc' = IF running THEN "poll" ELSE "finally"
    /\ cause' = IF running THEN cause ELSE "while"
    /\ UNCHANGED <<running, connection_timestamp, registered, closed, delivered,
                   marker, est, last, lockPc, lock_file,
                   client, logins, stop_reply, late_writes>>

(* poll_return without the except clause of lines 386-388: an exception of
   sync leaves the loop *)
poll_return_fatal ==
    /\ pc = "poll"
    /\ ~Suspended
    /\ \E outcome \in {"ok", "raise"} :
        /\ outcome = "raise" => delivered = 0
        /\ pc' = IF outcome = "ok" THEN "sleep_1" ELSE "finally"
    /\ delivered' = 0
    /\ last' = NoCall
    /\ UNCHANGED <<running, connection_timestamp, registered, closed,
                   marker, est, lockPc, lock_file,
                   client, logins, cause, stop_reply, late_writes>>

(* Lines 383-388: sync returned or raised, no callback being in progress;
   the sleep follows *)
poll_return ==
    /\ pc = "poll"
    /\ ~Suspended
    /\ \E outcome \in {"ok", "raise"} :
        /\ outcome = "raise" => delivered = 0
        /\ pc' = IF outcome = "ok" THEN "sleep_1" ELSE "sleep_5"
    /\ delivered' = 0
    /\ last' = NoCall
    /\ UNCHANGED <<running, connection_timestamp, registered, closed,
                   marker, est, lockPc, lock_file,
                   client, logins, cause, stop_reply, late_writes>>

(* Lines 385 and 388 *)
main_sleep ==
    /\ pc \in {"sleep_1", "sleep_5"}
    /\ pc' = "loop"
    /\ UNCHANGED <<running, connection_timestamp, registered, closed, delivered,
                   marker, est, last, lockPc, lock_file,
                   client, logins, cause, stop_reply, late_writes>>

(* Lines 392-393: the finally block clears the flag *)
main_finally ==
    /\ pc = "finally"
    /\ running' = FALSE
    /\ pc' = "close"
    /\ UNCHANGED <<connection_timestamp, registered, closed, delivered,
                   marker, est, last, lockPc, lock_file,
                   client, logins, cause, stop_reply, late_writes>>

(* Lines 394-396: client.close() is called when the client exists; closed
   counts the calls of close *)
main_close ==
    /\ pc = "close"
    /\ closed' = IF client # "None" THEN closed + 1 ELSE closed
    /\ pc' = "stopped"
    /\ UNCHANGED <<running, connection_timestamp, registered, delivered,
                   marker, est, last, lockPc, lock_file,
                   client, logins, cause, stop_reply, late_writes>>

(* Lines 399-406: Ctrl-C.  Inside the try of main (lines 355-388: at an
   await, in a call such as add_event_callback or print, or at the loop test)
   the cancellation or KeyboardInterrupt runs the finally block, also when it
   arrives while a callback is suspended in room_send: the callback's
   `except Exception` does not catch it, the reply has no outcome, and the
   flag stays as the command left it.  Outside the try (lines 335-353: before
   the thread is started, during the initial lock file creation, or after it
   and before the client is created) only the handlers of __main__ run, and
   they clear the flag.  Inside the finally block (lines 393-394, before
   client.close() is called) the KeyboardInterrupt leaves main at once: the
   handler of line 401 clears the flag and close is never called; cause keeps
   the reason why main had left the try. *)
keyboard_interrupt ==
    /\ \/ /\ pc \in {"login", "login_await", "join", "register", "est_sync",
                     "est_send", "est_resync", "ready", "loop", "poll",
                     "sleep_1", "sleep_5"}
          /\ pc' = "finally"
          /\ cause' = "interrupt"
          /\ UNCHANGED running
       \/ /\ pc \in {"start", "initial_lock", "create_client"}
          /\ pc' = "stopped"
          /\ cause' = "interrupt"
          /\ running' = FALSE
       \/ /\ pc \in {"finally", "close"}
          /\ pc' = "stopped"
          /\ running' = FALSE
          /\ UNCHANGED cause
    /\ delivered' = 0
    /\ marker' = NoMarker
    /\ est' = NotEstablished
    /\ last' = NoCall
    /\ UNCHANGED <<connection_timestamp, registered, closed, lockPc, lock_file,
                   client, logins, stop_reply, late_writes>>

(* The process has ended: the interpreter exited after asyncio.run, or the
   process was terminated inside terminate_processes; the daemon thread ends
   with it *)
ProcessEnded == pc \in {"exited", "killed"}

(* asyncio.run returned: the interpreter exits and takes the daemon thread
   with it *)
main_exit ==
    /\ pc = "stopped"
    /\ pc' = "exited"
    /\ UNCHANGED <<running, connection_timestamp, registered, closed, delivered,
                   marker, est, last, lockPc, lock_file,
                   client, logins, cause, stop_reply, late_writes>>

----------------------------------------------------------------------------
(* update_lock_file, lines 40-59, on its own thread *)

(* Lines 44-49 *)
lock_makedirs ==
    /\ lockPc = "makedirs" /\ ~ProcessEnded
    /\ lockPc' = "while"
    /\ UNCHANGED <<pc, running, connection_timestamp, registered, closed, delivered,
                   marker, est, last, lock_file,
                   client, logins, cause, stop_reply, late_writes>>

(* lock_while with the loop condition of line 51 always true *)
lock_while_ignores_flag ==
    /\ lockPc = "while" /\ ~ProcessEnded
    /\ lockPc' = "write"
    /\ UNCHANGED <<pc, running, connection_timestamp, registered, closed, delivered,
                   marker, est, last, lock_file,
                   client, logins, cause, stop_reply, late_writes>>

(* Line 51: `while running` *)
lock_while ==
    /\ lockPc = "while" /\ ~ProcessEnded
    /\ lockPc' = IF running THEN "write" ELSE "returned"
    /\ UNCHANGED <<pc, running, connection_timestamp, registered, closed, delivered,
                   marker, est, last, lock_file,
                   client, logins, cause, stop_reply, late_writes>>

(* lock_write giving up on a failed write: the thread clears the flag *)
lock_write_stops_on_error ==
    /\ lockPc = "write" /\ ~ProcessEnded
    /\ \E ok \in BOOLEAN :
        /\ lock_file' = IF ok THEN "thread" ELSE lock_file
        /\ running' = IF ok THEN running ELSE FALSE
    /\ late_writes' = IF running THEN late_writes ELSE count(late_writes)
    /\ lockPc' = "sleep"
    /\ UNCHANGED <<pc, connection_timestamp, registered, closed, delivered,
                   marker, est, last,
                   client, logins, cause, stop_reply>>

(* Lines 52-55 and 57-58 *)
lock_write ==
    /\ lockPc = "write" /\ ~ProcessEnded
    /\ \E ok \in BOOLEAN : lock_file' = IF ok THEN "thread" ELSE lock_file
    /\ late_writes' = IF running THEN late_writes ELSE count(late_writes)
    /\ lockPc' = "sleep"
    /\ UNCHANGED <<pc, running, connection_timestamp, registered, closed, delivered,
                   marker, est, last,
                   client, logins, cause, stop_reply>>

(* Lines 56 and 59 *)
lock_sleep ==
    /\ lockPc = "sleep" /\ ~ProcessEnded
    /\ lockPc' = "while"
    /\ UNCHANGED <<pc, running, connection_timestamp, registered, closed, delivered,
                   marker, est, last, lock_file,
                   client, logins, cause, stop_reply, late_writes>>

----------------------------------------------------------------------------

Init ==
    /\ pc = "start"
    /\ running = TRUE
    /\ connection_timestamp = None
    /\ registered = FALSE
    /\ closed = 0
    /\ delivered = 0
    /\ marker = NoMarker
    /\ est = NotEstablished
    /\ last = NoCall
    /\ lockPc = "idle"
    /\ lock_file = "absent"
    /\ client = "None"
    /\ logins = 0
    /\ cause = "none"
    /\ stop_reply = "none"
    /\ late_writes = 0

MainStep ==
    \/ main_start
    \/ main_initial_lock
    \/ main_create_client
    \/ main_login_call
    \/ main_login
    \/ main_join
    \/ main_register
    \/ est_sync_return
    \/ est_send
    \/ est_resync_return
    \/ main_ready
    \/ sync_deliver
    \/ room_send_return
    \/ main_while
    \/ poll_return
    \/ main_sleep
    \/ main_finally
    \/ main_close
    \/ keyboard_interrupt
    \/ main_exit

LockStep ==
    \/ lock_makedirs
    \/ lock_while
    \/ lock_write
    \/ lock_sleep

Next == MainStep \/ LockStep

Spec == Init /\ [][Next]_vars

(* The steps of main that the event loop takes once they can be taken: every
   await of main returns (the syncs carry a timeout, the sleeps are finite).
   Ctrl-C and the arrival of a further event are not among them. *)
MainProgress ==
    \/ main_start
    \/ main_initial_lock
    \/ main_create_client
    \/ main_login_call
    \/ main_login
    \/ main_join
    \/ main_register
    \/ est_sync_return
    \/ est_send
    \/ est_resync_return
    \/ main_ready
    \/ room_send_return
    \/ main_while
    \/ poll_return
    \/ main_sleep
    \/ main_finally
    \/ main_close
    \/ main_exit

(* Spec with the event loop running main and the operating system running
   the lock thread *)
FairSpec == Spec /\ WF_vars(MainProgress) /\ WF_vars(LockStep)

----------------------------------------------------------------------------
(* Properties *)

Handled == last.verdict # "none"
Dispatched == last.verdict = "process"
MarkerBody(body) ==
    Len(body) >= 1 /\ body[1] = SYNC_PREFIX
FlagUntouched == ~last.stop /\ running = last.run_before
ErrorReply(n, why) == <<"Error from ", BOT_NAME, " on DEFCON ", n, ": ">> \o why

(* C1: a message whose server timestamp is less than or equal to the epoch
   (ties included) is never passed to process_command, whatever its body:
   no reply is sent, no capability is called, the Run Flag is not touched. *)
C1_ReplayProtection ==
    (Handled /\ connection_timestamp # None
        /\ last.event.server_timestamp <= connection_timestamp)
    => /\ last.calls = 0
       /\ last.sent = <<>>
       /\ last.effects = <<>>
       /\ FlagUntouched

(* A command addressed to this agent, stamped exactly at the epoch, was
   handed to the callback *)
C1_Witness ==
    /\ last.verdict = "old"
    /\ last.event.body = Defcon("5", BOT_NAME)
    /\ last.event.server_timestamp = connection_timestamp

(* C2: with the epoch set when it is delivered, a message stamped strictly after the epoch whose
   body does not start with the sync prefix is passed to process_command
   exactly once (stripped), and a non-empty result is handed to room_send
   once, for the room the message came from; an empty result sends nothing. *)
C2_LiveMessageProcessed ==
    (Handled /\ last.epoch # None
        /\ last.event.server_timestamp > last.epoch
        /\ ~MarkerBody(last.event.body))
    => /\ last.calls = 1
       /\ last.message = strip(last.event.body)
       /\ IF last.response = NoResponse THEN last.sent = <<>>
          ELSE /\ Len(last.sent) = 1
               /\ last.sent[1].room_id = last.event.room
               /\ last.sent[1].body = last.response

(* A live command from a room other than ROOM_ID was answered *)
C2_Witness ==
    /\ Dispatched
    /\ last.event.room = OTHER_ROOM
    /\ last.event.server_timestamp > connection_timestamp
    /\ last.response = <<"Yes ", BOT_NAME, " is online">>
    /\ Len(last.sent) = 1
    /\ last.sent[1].outcome = "ok"

(* C3: a message whose body starts with __TIMESTAMP_SYNC__ is discarded for
   every timestamp, also one strictly greater than the epoch: it does not
   reach process_command and nothing is sent. *)
C3_MarkerDiscarded ==
    (Handled /\ MarkerBody(last.event.body))
    => /\ last.calls = 0
       /\ last.sent = <<>>
       /\ last.effects = <<>>
       /\ FlagUntouched

(* A marker stamped after the epoch was handed to the callback *)
C3_Witness ==
    /\ last.verdict = "sync_marker"
    /\ connection_timestamp # None
    /\ last.event.server_timestamp > connection_timestamp

(* C4: for DEFCON 5 <BOT_NAME> the Run Flag is set to false exactly when
   terminate_processes reported no error, and the reply is then the success
   text; with an error reported the reply is the error text with the errors
   and the Run Flag is left as it was.  (When terminate_processes ends the
   process itself it reports nothing, and the flag is not touched.) *)
C4_StopHard ==
    (Dispatched /\ last.message = Defcon("5", BOT_NAME))
    => /\ last.effects = <<"terminate_processes">>
       /\ last.stop <=> (~last.ended /\ last.errors = <<>>)
       /\ last.stop => /\ ~running
                       /\ last.response = <<"Success from ", BOT_NAME, " on DEFCON ", "5">>
       /\ last.errors # <<>>
            => /\ ~last.stop
               /\ running = last.run_before
               /\ last.response = ErrorReply("5", join("; ", last.errors))
       /\ last.ended => running = last.run_before

(* DEFCON 5 was processed and terminate_processes reported an error *)
C4_Witness ==
    /\ Dispatched
    /\ last.message = Defcon("5", BOT_NAME)
    /\ last.errors # <<>>
    /\ running

(* C5: DEFCON 4 <BOT_NAME>, DEFCON 3 <BOT_NAME> and DEFCON 2 call
   terminate_processes; the Run Flag is set to false exactly when that
   reported no error and the artifact step (hide or delete) returned True;
   otherwise the Run Flag is left as it was, and when a step reported a
   failure an error reply is returned. *)
C5_TwoStepStop ==
    \A n \in {"4", "3", "2"} :
        (Dispatched /\ last.message = (IF n = "2" THEN Defcon2 ELSE Defcon(n, BOT_NAME)))
        => /\ last.effects # <<>> /\ last.effects[1] = "terminate_processes"
           /\ last.stop <=> (~last.ended /\ last.errors = <<>> /\ last.artifact = "True")
           /\ last.errors # <<>> => last.artifact = "not_called"
           /\ last.stop => /\ ~running
                           /\ last.response = <<"Success from ", BOT_NAME, " on DEFCON ", n>>
           /\ ~last.stop => running = last.run_before
           /\ (last.errors # <<>> \/ last.artifact = "False")
                => /\ ~last.stop
                   /\ \E why \in {join("; ", last.errors),
                                           <<"Failed to hide VBS file">>,
                                           <<"Failed to delete VBS file">>} :
                                    last.response = ErrorReply(n, why)

(* DEFCON 4 was processed, the processes were terminated, hiding failed *)
C5_Witness ==
    /\ Dispatched
    /\ last.message = Defcon("4", BOT_NAME)
    /\ last.errors = <<>>
    /\ last.artifact = "False"
    /\ running

(* C6: an identity-scoped command addressed to another identity yields no
   reply, no capability call and no change of the Run Flag; DEFCON 2, which
   carries no identity, acts: terminate_processes is called, and a reply
   follows unless the process ended in the call. *)
C6_IdentityScoping ==
    /\ \A id \in Identities \ {BOT_NAME} :
        (Dispatched /\ last.message \in ScopedCommands(id))
        => /\ last.response = NoResponse
           /\ last.sent = <<>>
           /\ last.effects = <<>>
           /\ FlagUntouched
    /\ (Dispatched /\ last.message = Defcon2)
        => /\ last.effects # <<>>
           /\ last.response # NoResponse \/ last.ended

(* A live DEFCON 5 addressed to another identity reached process_command *)
C6_Witness ==
    /\ Dispatched
    /\ last.event.body = Defcon("5", "PC2")
    /\ last.calls = 1
    /\ last.response = NoResponse

(* C7: once the Run Flag is false no message is dispatched to
   process_command any more, so terminate_processes and the artifact step
   do not run again, also for the messages of the same sync response. *)
C7_NoDispatchAfterStop ==
    (Handled /\ ~last.run_before)
    => /\ last.effects = <<>>
       /\ last.calls = 1 => command_of(last.message) \notin
                                {"DEFCON 5", "DEFCON 4", "DEFCON 3", "DEFCON 2"}

(* C8: the Run Flag is true at startup, and a step changes it only from
   true to false and is never a step of update_lock_file. *)
C8_RunFlagMonotone ==
    /\ running = TRUE
    /\ [][running' # running
            => (running /\ ~running' /\ lockPc' = lockPc /\ lock_file' = lock_file)]_vars

(* A command has cleared the Run Flag while the lock thread is in its loop *)
C8_Witness ==
    /\ ~running
    /\ last.stop
    /\ lockPc \in {"while", "write", "sleep"}

(* C9: establish_connection_timestamp returns with the epoch set, having
   assigned it once; on the fallback paths its value is the local clock in
   milliseconds; once set the epoch never changes. *)
Established == pc \in {"ready", "loop", "poll", "sleep_1", "sleep_5"}
C9_EpochOnce ==
    /\ [](Established => connection_timestamp # None)
    /\ [](pc = "ready"
            => /\ est.writes = 1
               /\ est.path \in {"marker", "fallback", "final"}
               /\ est.path # "marker"
                    => connection_timestamp = est.clock.s * MsPerSec + est.clock.ms)
    /\ [][connection_timestamp # None
            => connection_timestamp' = connection_timestamp]_vars

(* The marker round trip failed at a clock reading of a full second *)
C9_Witness ==
    /\ pc = "ready"
    /\ est.path = "fallback"
    /\ est.clock.s = 1
    /\ connection_timestamp = MsPerSec

(* C10: when the marker round trip succeeds, the epoch is the server
   timestamp of the marker this agent sent during this startup, not that of
   another marker of the re-synced timeline. *)
C10_OwnMarkerAdopted ==
    (pc = "ready" /\ est.path = "marker" /\ est.echoed)
    => connection_timestamp = marker.server_timestamp

(* C11: a failure to terminate a matching process during a STOP command, an
   access-denied failure included, gives an error outcome: the reply is an
   error text and the command does not clear the Run Flag. *)
StopCommands == {"DEFCON 5", "DEFCON 4", "DEFCON 3", "DEFCON 2"}
C11_TerminationFailureCaptured ==
    (Dispatched /\ command_of(last.message) \in StopCommands /\ last.denied)
    => /\ ~last.stop
       /\ running = last.run_before
       /\ startswith(last.response, <<"Error from ">>)

(* C12: a login that does not return a session is fatal and not retried:
   login is called once, nothing of join, registration, epoch establishment
   or polling happens afterwards, and main ends stopped with the Run Flag
   false and the client closed. *)
LoginFailed == cause = "login"
Stopped == pc \in {"stopped", "exited"}
C12_AuthFailureFatal ==
    /\ [](logins <= 1)
    /\ [](LoginFailed
            => /\ pc \in {"finally", "close", "stopped", "exited"}
               /\ logins = 1
               /\ ~registered
               /\ connection_timestamp = None
               /\ marker = NoMarker /\ est = NotEstablished
               /\ last = NoCall /\ delivered = 0
               /\ Stopped => (~running /\ closed = 1))
    /\ (LoginFailed ~> Stopped)

(* C13: an exception raised by the sync of the poll loop is not fatal: the
   poll is left only for one of the two sleeps (or by Ctrl-C, or by a command
   that ends the process), the sleep of the except clause returns to the loop
   test, and with the Run Flag true the loop test polls again (unless Ctrl-C
   arrives); none of these steps changes the Run Flag. *)
Interrupted == cause = "interrupt"
C13_PollErrorNotFatal ==
    /\ [][(pc = "poll" /\ pc' # pc)
            => \/ pc' \in {"sleep_1", "sleep_5"} /\ running' = running
               \/ pc' = "finally" /\ Interrupted' /\ running' = running
               \/ pc' = "killed" /\ last'.ended /\ running' = running]_vars
    /\ [][(pc = "sleep_5" /\ pc' # pc)
            => \/ pc' = "loop" /\ running' = running
               \/ pc' = "finally" /\ Interrupted' /\ running' = running]_vars
    /\ [][(pc = "loop" /\ running /\ pc' # pc)
            => \/ pc' = "poll" /\ running'
               \/ pc' = "finally" /\ Interrupted' /\ running']_vars

(* A poll raised and main is in the sleep of the except clause, the Run
   Flag still true *)
C13_Witness ==
    /\ pc = "sleep_5"
    /\ running
    /\ connection_timestamp # None

(* C14: an exception raised while one message is handled (room_send raising
   is the one the handler can meet) stays inside message_callback: main stays
   in the same sync, the Run Flag is not changed by it, and the sync can hand
   the next event to the callback. *)
Raised(call) == call.sent # <<>> /\ call.sent[1].outcome = "raise"
C14_HandlerFaultContained ==
    /\ [][(Suspended /\ Raised(last'))
            => /\ pc' = pc
               /\ cause' = cause
               /\ running' = running]_vars
    /\ []((pc \in SyncStates /\ Raised(last) /\ delivered < MaxBatch)
            => ENABLED sync_deliver)

(* The reply to a live command could not be sent: room_send raised, main is
   still in the poll and the Run Flag is true *)
C14_Witness ==
    /\ pc = "poll"
    /\ Raised(last)
    /\ last.message = AreYouOnline(BOT_NAME)
    /\ running

(* C15: after a command cleared the Run Flag no further poll is started,
   main reaches the stopped state (the poll in flight returning or failing
   within its timeout), client.close() has then been called exactly once, and
   it is called once on every way out of main once the client exists. *)
StoppedByCommand == ~running /\ pc \in {"loop", "poll", "sleep_1", "sleep_5"}
C15_CooperativeShutdown ==
    /\ [](closed <= 1)
    /\ []((Stopped /\ client # "None") => closed = 1)
    /\ [][(pc # "poll" /\ pc' = "poll") => running]_vars
    /\ (StoppedByCommand ~> Stopped)

(* C16: once the Run Flag is false the lock thread leaves its loop (or the
   interpreter exits and ends the daemon thread), having written the lock
   file at most once since the flag changed; while the Run Flag is true the
   loop goes round write, sleep and loop test whatever the write did. *)
ThreadDone == lockPc \in {"idle", "returned"} \/ ProcessEnded
C16_LivenessThreadTerminates ==
    /\ [](late_writes <= 1)
    /\ (~running ~> ThreadDone)
    /\ [][(lockPc = "write" /\ lockPc' # lockPc) => lockPc' = "sleep"]_vars
    /\ [][(lockPc = "sleep" /\ lockPc' # lockPc) => lockPc' = "while"]_vars
    /\ [][(lockPc = "while" /\ running /\ lockPc' # lockPc) => lockPc' = "write"]_vars

(* The thread has returned after the one write it had already begun when
   the flag was cleared *)
C16_Witness ==
    /\ ~running
    /\ lockPc = "returned"
    /\ late_writes = 1

(* C17: the lock file has a single writer: only update_lock_file writes it,
   at every point of every execution. *)
C17_SingleWriter == lock_file \in {"absent", "thread"}

(* C18, as stated: the handler is registered only after the epoch has been
   established, so it is never invoked while the epoch is unset. *)
C18_HandlerAfterEpoch ==
    /\ registered => connection_timestamp # None
    /\ last.verdict # "no_timestamp"

(* C18, amended: the startup steps occur in the order login, join, handler
   registration, epoch establishment, first poll.  The handler is registered
   before the epoch is established; invoked while the epoch is unset it drops
   the message without processing it.  A failed join does not end main. *)
EstablishStates == {"est_sync", "est_send", "est_resync"}
Polling == pc \in {"loop", "poll", "sleep_1", "sleep_5"}
C18_StartupOrder ==
    /\ [](registered => (logins = 1 /\ ~LoginFailed))
    /\ [](pc \in {"login", "login_await", "join", "register"}
            => (~registered /\ connection_timestamp = None))
    /\ [][(registered' /\ ~registered)
            => (pc = "register" /\ pc' = "est_sync")]_vars
    /\ [][connection_timestamp' # connection_timestamp
            => (registered /\ pc \in EstablishStates /\ pc' = "ready")]_vars
    /\ [](Polling => (registered /\ connection_timestamp # None))
    /\ [](last.verdict = "no_timestamp"
            => /\ last.calls = 0
               /\ last.sent = <<>>
               /\ last.effects = <<>>
               /\ FlagUntouched)
    /\ [][(pc = "join" /\ pc' # pc)
            => \/ pc' = "register"
               \/ pc' = "finally" /\ Interrupted']_vars

(* During the first sync of establish_connection_timestamp the registered
   handler was handed a command for this agent and dropped it: the epoch is
   still unset *)
C18_Witness ==
    /\ pc = "est_sync"
    /\ registered
    /\ connection_timestamp = None
    /\ last.verdict = "no_timestamp"
    /\ last.event.body = Defcon("5", BOT_NAME)

(* C19: no live command is lost: when the epoch is taken from the marker
   that came back in the re-sync, no command for this agent whose server
   timestamp is strictly greater than that epoch was handed to the handler,
   and dropped, while the epoch was still unset. *)
C19_NoLiveCommandLost ==
    ~ /\ pc = "ready" /\ est.path = "marker" /\ est.echoed
      /\ last.verdict = "no_timestamp"
      /\ last.epoch = None
      /\ command_of(strip(last.event.body)) # "unrecognized"
      /\ last.event.server_timestamp > connection_timestamp

(* C20: stop is always acknowledged: when main has stopped because the loop
   test found the Run Flag cleared by a command, the success reply of that
   command was sent. *)
C20_StopAcknowledged ==
    (pc = "stopped" /\ cause = "while")
    => stop_reply = "ok"

====
